---- MODULE Spec2Model ----
(***************************************************************************)
(* The resilient data client of the AutoOps dashboard                      *)
(* (frontend/src/lib/api.js): fetchWithRetry and the api methods built on  *)
(* it, run by several callers at once on one JavaScript event loop.        *)
(*                                                                         *)
(* JavaScript values are modelled as follows: an object is a record, an    *)
(* array a sequence, null the record Null, a missing key a missing field.  *)
(* Times are milliseconds since the module was loaded.                     *)
(*                                                                         *)
(* Spec is the client alone, with every attempt and backoff of             *)
(* fetchWithRetry as a step.  SpecUI is one dashboard component            *)
(* (InventoryList, AlertManagement, PatchManagementSystem or Dashboard)    *)
(* from its mount to after its teardown; there a call of the client is one *)
(* step from its start to the envelope it returns.  SpecOne is one call of  *)
(* the client under the assumption that every attempt and every timer      *)
(* completes, with the error messages of its attempts recorded.            *)
(***************************************************************************)
EXTENDS Integers, Sequences, FiniteSets, TLC

\* ------------------------------------------------------------------ bounds
\* The clock stops after MaxTicks steps of one base unit.
MaxTicks == 4
\* A component is followed through MaxStarts runs of its handlers: the run of
\* its effect at mount, the ticks of its timer and the clicks.
MaxStarts == 3
\* The clock of a component stops after MaxPeriods polling periods.
MaxPeriods == 2

\* ------------------------------------------------------- program constants
\* fetchWithRetry(url, options = {}, retries = 2)
retriesOneMore == 2 + 1
retries == 2
\* setTimeout(resolve, 1000 * (i + 1))
BaseUnit == 1000
\* mockAlertsData[k].timestamp: new Date(Date.now() - age)
AlertAge1 == 900000
AlertAge2 == 7200000
AlertAge3 == 14400000
\* setInterval(loadInventory, 30000), setInterval(loadAlerts, 30000),
\* setInterval(loadDashboardData, 30000)
HalfMinute == 30000
\* the time ahead of a click for which "Schedule for Later" schedules
Day == 86400000
\* PatchManagementSystem: setInterval(..., 60000)
Minute == 60000

VARIABLES
    now,                \* Date.now()
    mockInventoryData,  \* module-level fixture
    mockAlertsData,     \* module-level fixture
    mockPatchesData,    \* module-level fixture
    calls,              \* the calls in flight, by slot
    view,               \* the component this behaviour mounts ("none": no component)
    setting,            \* the backend, "up" or "down" (permanently unreachable);
                        \* for Dashboard the build, "development" or "production"
    phase,              \* "init" (rendered, effects not run), "mounted", "unmounted"
    timerOn,            \* the setInterval timer of the component is armed
    pollDue,            \* when that timer fires next
    tasks,              \* the activations of the component's async handlers
    started,            \* the number of handler runs so far (mount, ticks, clicks)
    comp,               \* the useState values of the component
    log,                \* what happened, to state the claims
    trace               \* the error messages of the failed attempts of one call

uiVars == <<view, setting, phase, timerOn, pollDue, tasks, started, comp, log>>
vars == <<now, mockInventoryData, mockAlertsData, mockPatchesData, calls, uiVars, trace>>

\* Two callers use the client at the same time (a polling timer and a user's
\* click, say); each has at most one call in flight.
CallIds == {"A", "B"}

\* --------------------------------------------------------------- JS values
Null == [isNull |-> TRUE]
Undefined == [isUndefined |-> TRUE]
NoArg == [noArg |-> TRUE]
Has(obj, key) == key \in DOMAIN obj

\* Date#toISOString of the time t
ISOString(t) == <<"iso", t>>
\* the template literal `mock-${Date.now()}`
MockId(t) == <<"mock-", t>>
\* { ...b, ...a } : the keys of a win (a is spread last)
Spread(b, a) == a @@ b

\* ---------------------------------------------------------------- fixtures
\* Only the fields the client or its callers read are kept.  A patch's id (a
\* string) is the field patchId, so that the field id is a number everywhere.
InventoryFixture(t) == <<
    [id |-> 1, name |-> "PROD-WEB-01", status |-> "online",
     lastSeenAt |-> ISOString(t), patchStatus |-> "compliant", pendingPatches |-> 0],
    [id |-> 2, name |-> "PROD-DB-01", status |-> "online",
     lastSeenAt |-> ISOString(t), patchStatus |-> "pending", pendingPatches |-> 3],
    [id |-> 3, name |-> "PROD-APP-01", status |-> "online",
     lastSeenAt |-> ISOString(t), patchStatus |-> "compliant", pendingPatches |-> 0],
    [id |-> 4, name |-> "WORKSTATION-01", status |-> "online",
     lastSeenAt |-> ISOString(t), patchStatus |-> "pending", pendingPatches |-> 5],
    [id |-> 5, name |-> "WORKSTATION-02", status |-> "offline",
     lastSeenAt |-> ISOString(t), patchStatus |-> "non-compliant", pendingPatches |-> 12] >>

AlertsFixture(t) == <<
    [id |-> 1, title |-> "High CPU Usage on SQL Server", severity |-> "critical",
     timestamp |-> ISOString(t - AlertAge1), deviceName |-> "PROD-DB-01", status |-> "active"],
    [id |-> 2, title |-> "Failed Windows Update", severity |-> "high",
     timestamp |-> ISOString(t - AlertAge2), deviceName |-> "WORKSTATION-01", status |-> "active"],
    [id |-> 3, title |-> "Low Disk Space Warning", severity |-> "medium",
     timestamp |-> ISOString(t - AlertAge3), deviceName |-> "FILE-SRV-02", status |-> "active"] >>

PatchesFixture == <<
    [patchId |-> "KB5034441", title |-> "Windows 11 Security Update", severity |-> "CRITICAL",
     affectedDevices |-> <<1, 2>>, status |-> "AVAILABLE"],
    [patchId |-> "KB5034439", title |-> "Windows Server 2022 Update", severity |-> "HIGH",
     affectedDevices |-> <<3, 4>>, status |-> "DEPLOYING"],
    [patchId |-> "UBUNTU-2024-01", title |-> "Ubuntu Security Updates", severity |-> "MEDIUM",
     affectedDevices |-> <<5>>, status |-> "DEPLOYED"] >>

\* --------------------------------------------------------------- transport
\* What one call of fetch() can end with: a rejected promise (connection
\* refused, timeout), or a response with a status and a body text.
BodyTexts == {"[{\"id\":9}]", "{\"message\":\"ok\"}", "<html>"}
Responses ==
    {[rejected |-> TRUE, status |-> 0, body |-> ""]}
    \cup {[rejected |-> FALSE, status |-> 500, body |-> "{\"message\":\"ok\"}"]}
    \cup {[rejected |-> FALSE, status |-> 200, body |-> b] : b \in BodyTexts}

\* response.ok
ResponseOk(resp) == resp.status >= 200 /\ resp.status <= 299

\* response.json(): JSON.parse of the body text, which throws on other text
CanParse(text) == text \in {"[{\"id\":9}]", "{\"message\":\"ok\"}"}
JsonParse(text) ==
    CASE text = "[{\"id\":9}]" -> << [id |-> 9, name |-> "REAL-HOST-09", status |-> "online",
                                        lastSeenAt |-> ISOString(0 - 1), patchStatus |-> "pending",
                                        pendingPatches |-> 1] >>
      [] text = "{\"message\":\"ok\"}" -> [message |-> "ok"]

\* ---------------------------------------------------------- fetchWithRetry
\* The body of the try block: the value returned, or the message of the error
\* thrown.
TryAttemptIgnoresStatus(resp) ==
    IF resp.rejected THEN [threw |-> TRUE, message |-> "Failed to fetch"]
    ELSE IF ~CanParse(resp.body) THEN [threw |-> TRUE, message |-> "Unexpected token < in JSON"]
    ELSE [threw |-> FALSE,
          value |-> [success |-> TRUE, data |-> JsonParse(resp.body), fromCache |-> FALSE]]
TryAttempt(resp) ==
    IF resp.rejected THEN [threw |-> TRUE, message |-> "Failed to fetch"]
    ELSE IF ~ResponseOk(resp) THEN [threw |-> TRUE, message |-> "HTTP error! status: 500"]
    ELSE IF ~CanParse(resp.body) THEN [threw |-> TRUE, message |-> "Unexpected token < in JSON"]
    ELSE [threw |-> FALSE,
          value |-> [success |-> TRUE, data |-> JsonParse(resp.body), fromCache |-> FALSE]]

\* if (i === retries)
IsLastAttemptOneEarly(i) == i = retries - 1
IsLastAttempt(i) == i = retries

\* return { success: false, data: null, error: error.message }
FailureResultFirstError(message) ==
    [success |-> FALSE, data |-> Null, error |-> IF trace = << >> THEN message ELSE trace[1]]
FailureResult(message) == [success |-> FALSE, data |-> Null, error |-> message]

\* 1000 * (i + 1)
BackoffDelayFromZero(i) == BaseUnit * i
BackoffDelay(i) == BaseUnit * (i + 1)

\* for (...; i <= retries; ...)
LoopContinuesOnce(i) == i < retries
LoopContinues(i) == i <= retries

\* ------------------------------------------------------------- api methods
Ops == {"getInventory", "scanDevice", "getAlerts", "acknowledgeAlert", "resolveAlert",
        "createAlert", "getPatches", "getPatchDetails", "analyzePatch", "deployPatch",
        "getPatchStatus", "getPatchAnalysis", "getPatchSchedule", "getSchedules",
        "createSchedule", "getScheduleDetails", "cancelSchedule"}

\* The arguments the callers pass (the components of the dashboard, and the
\* end-to-end scenario createAlert({title: "X", severity: "CRITICAL", ...})).
AlertInputs ==
    { [title |-> "X", severity |-> "CRITICAL"],
      [title |-> "Disk full", severity |-> "MEDIUM", deviceName |-> "PROD-DB-01"],
      [id |-> 7, title |-> "X", severity |-> "CRITICAL"] }
PatchDataInputs ==
    { [patch |-> [severity |-> "CRITICAL"]], [patch |-> [severity |-> "HIGH"]],
      [patch |-> [severity |-> "LOW"]], [patch |-> [title |-> "Ubuntu Security Updates"]],
      [devices |-> << >>] }
ScheduleInputs ==
    { [patchId |-> "KB5034441", patchTitle |-> "Windows 11 Security Update",
       deviceIds |-> <<1, 2>>, scheduledFor |-> 86400000],
      [patchId |-> "KB5034439", patchTitle |-> "Windows Server 2022 Update",
       scheduledFor |-> 86400000] }
Inputs(op) ==
    CASE op = "scanDevice" -> {[deviceId |-> 2]}
      [] op \in {"acknowledgeAlert", "resolveAlert"} -> {[alertId |-> 1]}
      [] op = "createAlert" -> AlertInputs
      [] op = "getPatchDetails" -> {[patchId |-> "KB5034439"], [patchId |-> "KB0000000"]}
      [] op = "analyzePatch" -> PatchDataInputs
      [] op = "deployPatch" -> {[patchId |-> "KB5034441", deviceIds |-> <<1, 2>>]}
      [] op = "createSchedule" -> ScheduleInputs
      [] op \in {"getScheduleDetails", "cancelSchedule"} -> {[scheduleId |-> MockId(0)]}
      [] OTHER -> {NoArg}

\* What each method returns when fetchWithRetry reported a failure; t is the
\* value of Date.now() at that moment.
getInventoryFallbackRebuilt(arg, t) ==
    [success |-> TRUE, data |-> InventoryFixture(t), fromCache |-> TRUE]
getInventoryFallback(arg, t) ==
    [success |-> TRUE, data |-> mockInventoryData, fromCache |-> TRUE]
scanDeviceFallback(arg, t) ==
    [success |-> TRUE, data |-> [message |-> "Scan initiated (mock)"], fromCache |-> TRUE]
getAlertsFallbackWrongFixture(arg, t) ==
    [success |-> TRUE, data |-> mockInventoryData, fromCache |-> TRUE]
getAlertsFallback(arg, t) ==
    [success |-> TRUE, data |-> mockAlertsData, fromCache |-> TRUE]
acknowledgeAlertFallback(arg, t) ==
    [success |-> TRUE, data |-> [message |-> "Alert acknowledged (mock)"], fromCache |-> TRUE]
resolveAlertFallback(arg, t) ==
    [success |-> TRUE, data |-> [message |-> "Alert resolved (mock)"], fromCache |-> TRUE]
\* { id: Date.now(), ...alertData }
createAlertFallback(arg, t) ==
    [success |-> TRUE, data |-> Spread([id |-> t], arg), fromCache |-> TRUE]
\* a cache of the last list received: the data of a finished getPatches call
\* that succeeded with an array, when there is one
getPatchesFallbackLastGood(arg, t) ==
    LET good == {c \in CallIds : /\ calls[c].pc = "done" /\ calls[c].op = "getPatches"
                                 /\ calls[c].result.success
                                 /\ calls[c].finalResp.body = "[{\"id\":9}]"}
    IN [success |-> TRUE,
        data |-> IF good = {} THEN mockPatchesData
                 ELSE calls[CHOOSE c \in good : TRUE].result.data,
        fromCache |-> TRUE]
getPatchesFallback(arg, t) ==
    [success |-> TRUE, data |-> mockPatchesData, fromCache |-> TRUE]
\* mockPatchesData.find(p => p.id === patchId) || {}
getPatchDetailsFallback(arg, t) ==
    LET found == {k \in 1..Len(mockPatchesData) : mockPatchesData[k].patchId = arg.patchId}
        first == CHOOSE k \in found : \A m \in found : k <= m
    IN [success |-> TRUE,
        data |-> IF found = {} THEN [empty |-> TRUE] ELSE mockPatchesData[first],
        fromCache |-> TRUE]
\* patchData.patch?.severity || 'MEDIUM'
PatchSeverityDefaultHigh(patchData) ==
    IF Has(patchData, "patch") /\ Has(patchData.patch, "severity")
    THEN patchData.patch.severity ELSE "HIGH"
PatchSeverity(patchData) ==
    IF Has(patchData, "patch") /\ Has(patchData.patch, "severity")
    THEN patchData.patch.severity ELSE "MEDIUM"
analyzePatchFallback(arg, t) ==
    LET isHighRisk == PatchSeverity(arg) = "CRITICAL" \/ PatchSeverity(arg) = "HIGH"
    IN [success |-> TRUE,
        data |-> [recommendation |-> IF isHighRisk THEN "REVIEW" ELSE "APPROVE",
                  riskLevel |-> IF isHighRisk THEN 7 ELSE 3,
                  businessImpact |-> IF isHighRisk THEN "HIGH" ELSE "LOW"],
        fromCache |-> TRUE]
deployPatchFallback(arg, t) ==
    [success |-> TRUE,
     data |-> [jobId |-> MockId(t), message |-> "Deployment initiated (mock)"],
     fromCache |-> TRUE]
\* counting with d.patchStatus.includes(st) instead of ===
CountStatusIncludes(inventory, st) ==
    Cardinality({k \in 1..Len(inventory) :
                    \/ inventory[k].patchStatus = st
                    \/ st = "compliant" /\ inventory[k].patchStatus = "non-compliant"})
CountStatus(inventory, st) == Cardinality({k \in 1..Len(inventory) : inventory[k].patchStatus = st})
getPatchStatusFallback(arg, t) ==
    LET inventory == mockInventoryData
    IN [success |-> TRUE,
        data |-> [totalDevices |-> Len(inventory),
                  compliant |-> CountStatus(inventory, "compliant"),
                  pending |-> CountStatus(inventory, "pending"),
                  nonCompliant |-> CountStatus(inventory, "non-compliant"),
                  lastUpdate |-> ISOString(t)],
        fromCache |-> TRUE]
getPatchAnalysisFallback(arg, t) ==
    [success |-> TRUE, data |-> mockPatchesData, fromCache |-> TRUE]
getPatchScheduleFallback(arg, t) ==
    [success |-> TRUE, data |-> << >>, fromCache |-> TRUE]
getSchedulesFallback(arg, t) ==
    [success |-> TRUE, data |-> [schedules |-> << >>, count |-> 0], fromCache |-> TRUE]
\* scheduleData.deviceIds?.length || 0
createScheduleFallback(arg, t) ==
    [success |-> TRUE,
     data |-> [scheduleId |-> MockId(t),
               scheduledFor |-> arg.scheduledFor,
               patchTitle |-> arg.patchTitle,
               deviceCount |-> IF Has(arg, "deviceIds") THEN Len(arg.deviceIds) ELSE 0,
               message |-> "Schedule created (mock)"],
     fromCache |-> TRUE]
getScheduleDetailsFallback(arg, t) ==
    [success |-> FALSE, error |-> "Schedule not found"]
cancelScheduleFallbackBare(arg, t) ==
    [success |-> TRUE, data |-> [message |-> "Schedule cancelled (mock)"]]
cancelScheduleFallback(arg, t) ==
    [success |-> TRUE, data |-> [message |-> "Schedule cancelled (mock)"], fromCache |-> TRUE]

Fallback(op, arg, t) ==
    CASE op = "getInventory" -> getInventoryFallback(arg, t)
      [] op = "scanDevice" -> scanDeviceFallback(arg, t)
      [] op = "getAlerts" -> getAlertsFallback(arg, t)
      [] op = "acknowledgeAlert" -> acknowledgeAlertFallback(arg, t)
      [] op = "resolveAlert" -> resolveAlertFallback(arg, t)
      [] op = "createAlert" -> createAlertFallback(arg, t)
      [] op = "getPatches" -> getPatchesFallback(arg, t)
      [] op = "getPatchDetails" -> getPatchDetailsFallback(arg, t)
      [] op = "analyzePatch" -> analyzePatchFallback(arg, t)
      [] op = "deployPatch" -> deployPatchFallback(arg, t)
      [] op = "getPatchStatus" -> getPatchStatusFallback(arg, t)
      [] op = "getPatchAnalysis" -> getPatchAnalysisFallback(arg, t)
      [] op = "getPatchSchedule" -> getPatchScheduleFallback(arg, t)
      [] op = "getSchedules" -> getSchedulesFallback(arg, t)
      [] op = "createSchedule" -> createScheduleFallback(arg, t)
      [] op = "getScheduleDetails" -> getScheduleDetailsFallback(arg, t)
      [] op = "cancelSchedule" -> cancelScheduleFallback(arg, t)

\* if (!result.success) { return <fallback> }  return result
ApiReturnNoFallback(op, arg, result, t) == result
ApiReturnDropsResult(op, arg, result, t) ==
    IF ~result.success THEN Fallback(op, arg, t) ELSE Undefined
ApiReturn(op, arg, result, t) ==
    IF ~result.success THEN Fallback(op, arg, t) ELSE result

\* ------------------------------------------------------------------- state
NoResult == [none |-> TRUE]
IdleCall ==
    [op |-> "none", arg |-> NoArg, pc |-> "idle", i |-> 0, attempts |-> 0, failed |-> 0,
     delays |-> << >>, wakeAt |-> 0, finalResp |-> NoResult, result |-> NoResult,
     env |-> NoResult]

\* The module has been loaded; no component is rendered.
\* a run of the effect activates up to two async handlers
TaskIds == 1..(2 * MaxStarts)
FreeTask == [kind |-> "free", pc |-> "free", trigger |-> "none", closure |-> NoArg]
\* polls: how often the interval timer fired; finished: the loads that have
\* completed, in the order of their completion; cached: the state that holds data of an
\* envelope with fromCache = true; edits: the local edits of the list since
\* the last load was applied, discarded: how many of them the last load
\* replaced; payload: the list of the envelope that the loader received last,
\* sources: the fromCache of the envelopes the loaders received, in that order;
\* lateWrites: 1 when a handler wrote state after the teardown.
EmptyLog == [polls |-> 0, finished |-> << >>, cached |-> {}, edits |-> 0,
             discarded |-> 0, payload |-> << >>, sources |-> << >>, lateWrites |-> 0]
NoComponent ==
    /\ phase = "init"
    /\ timerOn = FALSE
    /\ pollDue = 0
    /\ tasks = [t \in TaskIds |-> FreeTask]
    /\ started = 0
    /\ log = EmptyLog

Init ==
    /\ now = 0
    /\ mockInventoryData = InventoryFixture(0)
    /\ mockAlertsData = AlertsFixture(0)
    /\ mockPatchesData = PatchesFixture
    /\ calls = [c \in CallIds |-> IdleCall]
    /\ view = "none"
    /\ setting = "up"
    /\ comp = NoArg
    /\ NoComponent
    /\ trace = << >>


\* Used to state the claims: whether the transport failed an attempt (no
\* response, a status outside 2xx, or a body that is not JSON), and the count
\* of such attempts kept in the field "failed" of a call.
TransportFailed(resp) ==
    resp.rejected \/ resp.status < 200 \/ resp.status > 299
        \/ resp.body \notin {"[{\"id\":9}]", "{\"message\":\"ok\"}"}
Failures(resp) == IF TransportFailed(resp) THEN 1 ELSE 0

\* ----------------------------------------------------------------- actions
\* A caller invokes an api method: fetchWithRetry starts its first attempt.
Invoke(c, op, arg) ==
    /\ calls[c].pc = "idle"
    /\ calls' = [calls EXCEPT ![c] =
            [IdleCall EXCEPT !.op = op, !.arg = arg, !.pc = "fetch", !.attempts = 1]]
    /\ UNCHANGED <<now, mockInventoryData, mockAlertsData, mockPatchesData, uiVars>>

\* An attempt ends without an error: fetchWithRetry returns the response, and
\* the api method returns to its caller.
AttemptReturns(c, resp) ==
    LET call == calls[c]
        try == TryAttempt(resp)
    IN /\ call.pc = "fetch"
       /\ ~try.threw
       /\ calls' = [calls EXCEPT ![c] =
               [call EXCEPT !.pc = "done", !.failed = @ + Failures(resp),
                            !.finalResp = resp, !.result = try.value,
                            !.env = ApiReturn(call.op, call.arg, try.value, now)]]
       /\ UNCHANGED <<now, mockInventoryData, mockAlertsData, mockPatchesData, uiVars>>

\* The loop counter kept in one module-level variable instead of the local i
AttemptRetriesSharedCounter(c, resp) ==
    LET call == calls[c]
        try == TryAttempt(resp)
    IN /\ call.pc = "fetch"
       /\ try.threw
       /\ ~IsLastAttempt(call.i)
       /\ calls' = [d \in CallIds |->
               IF d = c
               THEN [call EXCEPT !.pc = "sleep", !.failed = @ + Failures(resp),
                                 !.delays = Append(@, BackoffDelay(call.i)),
                                 !.wakeAt = now + BackoffDelay(call.i)]
               ELSE IF calls[d].pc \in {"fetch", "sleep"} /\ calls[d].i < retries
                    THEN [calls[d] EXCEPT !.i = @ + 1]
                    ELSE calls[d]]
       /\ UNCHANGED <<now, mockInventoryData, mockAlertsData, mockPatchesData, uiVars>>
\* An attempt that is not the last one ends with an error: the catch block
\* arms the backoff timer.
AttemptRetries(c, resp) ==
    LET call == calls[c]
        try == TryAttempt(resp)
    IN /\ call.pc = "fetch"
       /\ try.threw
       /\ ~IsLastAttempt(call.i)
       /\ calls' = [calls EXCEPT ![c] =
               [call EXCEPT !.pc = "sleep", !.failed = @ + Failures(resp),
                            !.delays = Append(@, BackoffDelay(call.i)),
                            !.wakeAt = now + BackoffDelay(call.i)]]
       /\ UNCHANGED <<now, mockInventoryData, mockAlertsData, mockPatchesData, uiVars>>

\* The last attempt ends with an error: fetchWithRetry returns its failure
\* result and the api method answers with its fallback.
AttemptGivesUp(c, resp) ==
    LET call == calls[c]
        try == TryAttempt(resp)
        result == FailureResult(try.message)
    IN /\ call.pc = "fetch"
       /\ try.threw
       /\ IsLastAttempt(call.i)
       /\ calls' = [calls EXCEPT ![c] =
               [call EXCEPT !.pc = "done", !.failed = @ + Failures(resp), !.finalResp = resp,
                            !.result = result,
                            !.env = ApiReturn(call.op, call.arg, result, now)]]
       /\ UNCHANGED <<now, mockInventoryData, mockAlertsData, mockPatchesData, uiVars>>

\* The backoff timer fires: the loop goes to its next iteration.  Leaving the
\* loop makes fetchWithRetry return undefined, and reading result.success
\* then throws a TypeError out of the api method.
TimerFires(c) ==
    LET call == calls[c]
    IN /\ call.pc = "sleep"
       /\ now >= call.wakeAt
       /\ calls' = [calls EXCEPT ![c] =
               IF LoopContinues(call.i + 1)
               THEN [call EXCEPT !.pc = "fetch", !.i = @ + 1, !.attempts = @ + 1, !.wakeAt = 0]
               ELSE [call EXCEPT !.pc = "thrown", !.i = @ + 1, !.wakeAt = 0,
                                 !.result = Undefined]]
       /\ UNCHANGED <<now, mockInventoryData, mockAlertsData, mockPatchesData, uiVars>>

\* Time passes.
Tick ==
    /\ now < MaxTicks * BaseUnit
    /\ now' = now + BaseUnit
    /\ UNCHANGED <<mockInventoryData, mockAlertsData, mockPatchesData, calls, uiVars>>

\* The caller has taken the envelope (or the exception); the slot is free
\* for the next call.
Release(c) ==
    /\ calls[c].pc \in {"done", "thrown"}
    /\ calls' = [calls EXCEPT ![c] = IdleCall]
    /\ UNCHANGED <<now, mockInventoryData, mockAlertsData, mockPatchesData, uiVars>>

Next ==
    \/ \E c \in CallIds, op \in Ops : \E arg \in Inputs(op) : Invoke(c, op, arg) /\ UNCHANGED trace
    \/ \E c \in CallIds, resp \in Responses : AttemptReturns(c, resp) /\ UNCHANGED trace
    \/ \E c \in CallIds, resp \in Responses : AttemptRetries(c, resp) /\ UNCHANGED trace
    \/ \E c \in CallIds, resp \in Responses : AttemptGivesUp(c, resp) /\ UNCHANGED trace
    \/ \E c \in CallIds : TimerFires(c) /\ UNCHANGED trace
    \/ Tick /\ UNCHANGED trace
    \/ \E c \in CallIds : Release(c) /\ UNCHANGED trace

Spec == Init /\ [][Next]_vars

\* ------------------------------------------------------------------ one call
\* One caller, one call at a time, of an operation that the backend answers
\* with an object; trace records the message of the error each failed attempt
\* threw.  Calls start until the clock reaches its bound; the clock then
\* still runs for the timer of a call that waits.
OneOps == Ops \ {"getInventory", "getAlerts", "getPatches"}
OneResponses == {resp \in Responses : resp.body # "[{\"id\":9}]"}
OneInvoke(op, arg) ==
    /\ now <= MaxTicks * BaseUnit
    /\ Invoke("A", op, arg)
    /\ trace' = << >>
OneAttemptReturns(resp) == AttemptReturns("A", resp) /\ UNCHANGED trace
OneAttemptRetries(resp) ==
    AttemptRetries("A", resp) /\ trace' = Append(trace, TryAttempt(resp).message)
OneAttemptGivesUp(resp) ==
    AttemptGivesUp("A", resp) /\ trace' = Append(trace, TryAttempt(resp).message)
OneTimerFires == TimerFires("A") /\ UNCHANGED trace
OneTick ==
    /\ now < MaxTicks * BaseUnit \/ (calls["A"].pc = "sleep" /\ now < calls["A"].wakeAt)
    /\ now' = now + BaseUnit
    /\ UNCHANGED <<mockInventoryData, mockAlertsData, mockPatchesData, calls, uiVars, trace>>
OneRelease == Release("A") /\ UNCHANGED trace

NextOne ==
    \/ \E op \in OneOps : \E arg \in Inputs(op) : OneInvoke(op, arg)
    \/ \E resp \in OneResponses : OneAttemptReturns(resp)
    \/ \E resp \in OneResponses : OneAttemptRetries(resp)
    \/ \E resp \in OneResponses : OneAttemptGivesUp(resp)
    \/ OneTimerFires
    \/ OneTick
    \/ OneRelease

\* Every attempt of fetch() ends, every armed timer fires, time passes.  Each
\* step of a call changes Progress: how far the call has come, and the time.
Progress ==
    <<calls["A"].pc, calls["A"].attempts, calls["A"].failed, Len(calls["A"].delays), now>>
AttemptEnds ==
    \E resp \in OneResponses :
        OneAttemptReturns(resp) \/ OneAttemptRetries(resp) \/ OneAttemptGivesUp(resp)
SpecOne ==
    /\ Init
    /\ [][NextOne]_vars
    /\ WF_Progress(AttemptEnds)
    /\ WF_Progress(OneTimerFires)
    /\ WF_Progress(OneTick)

\* ---------------------------------------------------------------- components
Views == {"InventoryList", "AlertManagement", "PatchManagementSystem", "Dashboard"}
ApiViews == {"InventoryList", "AlertManagement", "PatchManagementSystem"}
\* the components of frontend/src/components that call fetch() themselves
DirectViews == {"InventoryList.jsx", "AlertManagement.jsx"}
Settings(v) == IF v = "Dashboard" THEN {"development", "production"} ELSE {"up", "down"}

\* setInterval(..., 30000) and, in PatchManagementSystem, setInterval(..., 60000)
PollInterval(v) == IF v = "PatchManagementSystem" THEN Minute ELSE HalfMinute

\* a non-empty error text held in the error state
ErrorText(s) == [message |-> s]
\* the value JS null in processingAlert
ProcNull == "null"

\* The useState initial values (of the state the handlers below write).
InitialState(v) ==
    CASE v = "InventoryList" ->
            [inventory |-> << >>, loading |-> TRUE, error |-> Null, usingMockData |-> FALSE,
             scanning |-> << >>]
      [] v = "AlertManagement" ->
            [alerts |-> << >>, loading |-> TRUE, error |-> Null, processingAlert |-> << >>,
             usingMockData |-> FALSE]
      [] v = "PatchManagementSystem" ->
            [patches |-> << >>, devices |-> << >>, patchAnalysis |-> Null, loading |-> TRUE,
             deploymentSchedule |-> << >>, usingMockData |-> FALSE, error |-> Null]
      [] v = "Dashboard" ->
            [patchStatus |-> << >>, loading |-> TRUE]
      [] v = "InventoryList.jsx" ->
            [inventory |-> << >>, loading |-> TRUE, error |-> Null]
      [] v = "AlertManagement.jsx" ->
            [alerts |-> << >>, loading |-> TRUE, error |-> Null]

\* What the component renders.
ShowsSpinner(st) == st.loading
ShowsErrorScreen(st) ==
    /\ ~st.loading
    /\ CASE view \in {"InventoryList", "AlertManagement"} \cup DirectViews -> st.error # Null
         [] view = "PatchManagementSystem" -> st.error # Null /\ Len(st.patches) = 0
         [] OTHER -> FALSE
ShowsMain(st) == ~ShowsSpinner(st) /\ ~ShowsErrorScreen(st)
ShowsBanner(st) == ShowsMain(st) /\ view \in ApiViews /\ st.usingMockData

\* One component is rendered for the first time; its effects have not run.
InitUI ==
    /\ now = 0
    /\ mockInventoryData = InventoryFixture(0)
    /\ mockAlertsData = AlertsFixture(0)
    /\ mockPatchesData = PatchesFixture
    /\ calls = [c \in CallIds |-> IdleCall]
    /\ view \in Views \cup DirectViews
    /\ setting \in Settings(view)
    /\ comp = InitialState(view)
    /\ NoComponent
    /\ trace = << >>

\* What fetch() answers to the calls of a component.  A call of the client is
\* one step here: when the answer is a failure, every attempt of the call
\* failed like it.
Rejected == [rejected |-> TRUE, status |-> 0, body |-> ""]
Answers(op) ==
    IF setting = "down" THEN {Rejected}
    ELSE IF op \in {"getInventory", "getAlerts", "getPatches"}
         THEN {Rejected, [rejected |-> FALSE, status |-> 200, body |-> "[{\"id\":9}]"]}
         ELSE {Rejected, [rejected |-> FALSE, status |-> 200, body |-> "{\"message\":\"ok\"}"]}
CallOutcome(op, arg, resp, t) ==
    LET try == TryAttempt(resp)
    IN ApiReturn(op, arg, IF try.threw THEN FailureResult(try.message) ELSE try.value, t)

\* result.fromCache || false
FromCacheOrFalse(result) == IF Has(result, "fromCache") THEN result.fromCache ELSE FALSE

\* -------------------------------------------------------------- InventoryList
\* loadInventory up to its await
loadInventoryStart(st) == [st EXCEPT !.error = Null]
\* loadInventory from the return of api.getInventory()
loadInventoryDoneKeepsFirst(st, result) ==
    LET s1 == IF result.success /\ Len(st.inventory) = 0
              THEN [st EXCEPT !.inventory = result.data,
                              !.usingMockData = FromCacheOrFalse(result)]
              ELSE st
    IN [s1 EXCEPT !.loading = FALSE]
loadInventoryDone(st, result) ==
    LET s1 == IF result.success
              THEN [st EXCEPT !.inventory = result.data,
                              !.usingMockData = FromCacheOrFalse(result)]
              ELSE [st EXCEPT !.error = ErrorText(IF Has(result, "error") THEN result.error
                                                  ELSE "Failed to fetch inventory")]
    IN [s1 EXCEPT !.loading = FALSE]

\* ------------------------------------------------------------ AlertManagement
\* alerts.map(...) and StatusOf are defined here for the variant of loadAlerts
\* that keeps the status an alert was given locally
StatusOf(alert) == IF Has(alert, "status") THEN alert.status ELSE "undefined"
KeptStatus(old, alert) ==
    LET same == {k \in 1..Len(old) : /\ Has(old[k], "id") /\ Has(alert, "id")
                                      /\ old[k].id = alert.id
                                      /\ StatusOf(old[k]) \in {"ACKNOWLEDGED", "RESOLVED"}}
    IN IF same = {} THEN alert
       ELSE Spread(alert, [status |-> old[CHOOSE k \in same : TRUE].status])
loadAlertsDoneMerges(st, result) ==
    LET s1 == IF result.success
              THEN [st EXCEPT !.alerts = [k \in 1..Len(result.data) |->
                                              KeptStatus(st.alerts, result.data[k])],
                              !.usingMockData = FromCacheOrFalse(result),
                              !.error = Null]
              ELSE [st EXCEPT !.error = ErrorText("Failed to load alerts")]
    IN [s1 EXCEPT !.loading = FALSE]
\* loadAlerts from the return of api.getAlerts()
loadAlertsDone(st, result) ==
    LET s1 == IF result.success
              THEN [st EXCEPT !.alerts = result.data,
                              !.usingMockData = FromCacheOrFalse(result),
                              !.error = Null]
              ELSE [st EXCEPT !.error = ErrorText("Failed to load alerts")]
    IN [s1 EXCEPT !.loading = FALSE]

\* setProcessingAlert(prev => ({ ...prev, [alertId]: value }))
SetProcessing(st, alertId, value) ==
    [st EXCEPT !.processingAlert = (alertId :> value) @@ st.processingAlert]
Processing(st, alertId) ==
    IF alertId \in DOMAIN st.processingAlert THEN st.processingAlert[alertId] ELSE "undefined"

\* alerts.map(alert => alert.id === alertId ? { ...alert, status, updatedAt } : alert)
WithStatus(alerts, alertId, status, t) ==
    [k \in 1..Len(alerts) |->
        IF Has(alerts[k], "id") /\ alerts[k].id = alertId
        THEN Spread(alerts[k], [status |-> status, updatedAt |-> ISOString(t)])
        ELSE alerts[k]]

\* handleAcknowledge and handleResolve from the return of the api call; seen is
\* the state of the render whose button was clicked
handleAcknowledgeDone(st, seen, alertId, result, t) ==
    LET s1 == IF result.success
              THEN [st EXCEPT !.alerts = WithStatus(seen.alerts, alertId, "ACKNOWLEDGED", t)]
              ELSE st
    IN SetProcessing(s1, alertId, ProcNull)
handleResolveDone(st, seen, alertId, result, t) ==
    LET s1 == IF result.success
              THEN [st EXCEPT !.alerts = WithStatus(seen.alerts, alertId, "RESOLVED", t)]
              ELSE st
    IN SetProcessing(s1, alertId, ProcNull)

\* the disabled conditions of the Acknowledge and Resolve buttons
CanAcknowledge(st, alert) ==
    /\ StatusOf(alert) \notin {"ACKNOWLEDGED", "RESOLVED"}
    /\ Processing(st, alert.id) # "acknowledging"
CanResolve(st, alert) ==
    /\ StatusOf(alert) # "RESOLVED"
    /\ Processing(st, alert.id) # "resolving"

\* the form as it is submitted
NewAlert == [title |-> "Disk full", description |-> "", severity |-> "MEDIUM",
             deviceId |-> "", deviceName |-> ""]
\* createAlert from the return of api.createAlert(newAlert)
createAlertDone(st, seen, result) ==
    IF result.success THEN [st EXCEPT !.alerts = <<result.data>> \o seen.alerts] ELSE st

\* setScanning(prev => ({ ...prev, [deviceId]: value })), and scanning[deviceId]
SetScanning(st, deviceId, value) ==
    [st EXCEPT !.scanning = (deviceId :> value) @@ st.scanning]
Scanning(st, deviceId) == deviceId \in DOMAIN st.scanning /\ st.scanning[deviceId]

\* ------------------------------- components/InventoryList, AlertManagement
\* What the backend can answer to the fetch() of these components.
DirectAnswers ==
    IF setting = "down" THEN {Rejected}
    ELSE {resp \in Responses : resp.rejected \/ resp.body = "[{\"id\":9}]"}
            \cup {[rejected |-> FALSE, status |-> 500, body |-> "[{\"id\":9}]"]}
DirectOk(resp) == ~resp.rejected /\ ResponseOk(resp) /\ CanParse(resp.body)
\* loadInventory and loadAlerts of these components from the return of
\* fetch(): the try block with its throw, and the catch block
loadDirectDone(st, resp) ==
    IF resp.rejected
    THEN [st EXCEPT !.error = ErrorText("Failed to fetch"), !.loading = FALSE]
    ELSE IF ~ResponseOk(resp)
    THEN [st EXCEPT !.error = ErrorText(IF view = "InventoryList.jsx"
                                        THEN "Failed to fetch inventory"
                                        ELSE "Failed to fetch alerts"),
                    !.loading = FALSE]
    ELSE IF ~CanParse(resp.body)
    THEN [st EXCEPT !.error = ErrorText("Unexpected token < in JSON"), !.loading = FALSE]
    ELSE IF view = "InventoryList.jsx"
    THEN [st EXCEPT !.inventory = JsonParse(resp.body), !.loading = FALSE]
    ELSE [st EXCEPT !.alerts = JsonParse(resp.body), !.loading = FALSE]

\* ------------------------------------------------------ PatchManagementSystem
\* loadPatchData up to its first await
loadPatchDataStart(st) == [st EXCEPT !.loading = TRUE, !.error = Null]
\* the catch block of loadPatchData; seen is the state of the render that
\* created the running loadPatchData
loadPatchDataCatch(st, seen, message) ==
    LET s1 == [st EXCEPT !.error = ErrorText(message), !.loading = FALSE]
        s2 == IF Len(seen.patches) = 0 THEN [s1 EXCEPT !.patches = << >>] ELSE s1
    IN IF Len(seen.devices) = 0 THEN [s2 EXCEPT !.devices = << >>] ELSE s2
\* loadPatchData from the return of api.getPatches() to its second await; both
\* answers of getPatches are arrays, so Array.isArray keeps them
loadPatchDataGotPatchesNoIndicator(st, seen, patchesResult) ==
    IF patchesResult.success
    THEN [st EXCEPT !.patches = patchesResult.data]
    ELSE loadPatchDataCatch(st, seen, "Failed to load patches")
loadPatchDataGotPatches(st, seen, patchesResult) ==
    IF patchesResult.success
    THEN [st EXCEPT !.patches = patchesResult.data,
                    !.usingMockData = FromCacheOrFalse(patchesResult)]
    ELSE loadPatchDataCatch(st, seen, "Failed to load patches")

CountWhere(list, field, value) ==
    Cardinality({k \in 1..Len(list) : Has(list[k], field) /\ list[k][field] = value})
Max0(n) == IF n > 0 THEN n ELSE 0
\* The analysis generated for mock data (without coverageRate and
\* criticalExposure).
MockAnalysis(patchData, deviceData) ==
    LET totalDevices == Len(deviceData)
        patchedDevices == CountWhere(deviceData, "patchStatus", "compliant")
    IN [totalPatches |-> Len(patchData),
        criticalPatches |-> CountWhere(patchData, "severity", "CRITICAL"),
        pendingDeployments |-> CountWhere(patchData, "status", "AVAILABLE"),
        fullyPatched |-> patchedDevices,
        partiallyPatched |-> IF totalDevices > 0 THEN Max0(totalDevices - patchedDevices - 1) ELSE 0,
        unpatched |-> IF totalDevices > 0 THEN Max0(totalDevices - patchedDevices) ELSE 0]
\* loadPatchData from the return of api.getInventory() to its end
loadPatchDataDone(st, patchesResult, devicesResult) ==
    LET s1 == IF devicesResult.success THEN [st EXCEPT !.devices = devicesResult.data] ELSE st
        s2 == IF FromCacheOrFalse(patchesResult) \/ ~patchesResult.success
              THEN [s1 EXCEPT !.patchAnalysis = MockAnalysis(patchesResult.data, devicesResult.data)]
              ELSE s1
    IN [s2 EXCEPT !.loading = FALSE]

\* patches[k]?.field || fallback
FieldOr(list, k, field, fallback) ==
    IF k <= Len(list) /\ Has(list[k], field) THEN list[k][field] ELSE fallback
\* patches[k]?.id || fallback (the fixture's id is its patchId here)
IdOr(list, k, fallback) ==
    IF k <= Len(list) /\ Has(list[k], "patchId") THEN list[k].patchId
    ELSE IF k <= Len(list) /\ Has(list[k], "id") THEN list[k].id
    ELSE fallback
\* patches[k]?.affectedDevices?.length || fallback
DeviceCountOr(list, k, fallback) ==
    IF k <= Len(list) /\ Has(list[k], "affectedDevices") /\ Len(list[k].affectedDevices) > 0
    THEN Len(list[k].affectedDevices) ELSE fallback
\* the sample schedules of loadSchedules
SampleSchedules(patches, t) ==
    << [scheduleId |-> <<"sample-", t, 1>>, patchId |-> IdOr(patches, 1, "KB5034441"),
        patchTitle |-> FieldOr(patches, 1, "title", "Windows Security Update"),
        severity |-> FieldOr(patches, 1, "severity", "CRITICAL"),
        deviceCount |-> DeviceCountOr(patches, 1, 2),
        scheduledFor |-> ISOString(t + 7200000), status |-> "SCHEDULED", requestedBy |-> "admin"],
       [scheduleId |-> <<"sample-", t, 2>>, patchId |-> IdOr(patches, 2, "KB5034439"),
        patchTitle |-> FieldOr(patches, 2, "title", "Windows Server Update"),
        severity |-> FieldOr(patches, 2, "severity", "HIGH"),
        deviceCount |-> DeviceCountOr(patches, 2, 3),
        scheduledFor |-> ISOString(t + 86400000), status |-> "SCHEDULED", requestedBy |-> "admin"],
       [scheduleId |-> <<"sample-", t, 3>>, patchId |-> IdOr(patches, 3, "UBUNTU-2024-01"),
        patchTitle |-> FieldOr(patches, 3, "title", "Ubuntu Security Update"),
        severity |-> FieldOr(patches, 3, "severity", "MEDIUM"),
        deviceCount |-> DeviceCountOr(patches, 3, 1),
        scheduledFor |-> ISOString(t + 172800000), status |-> "SCHEDULED", requestedBy |-> "system"] >>
\* loadSchedules from the return of api.getSchedules('SCHEDULED'); seen is the
\* state of the render that created the running loadSchedules
loadSchedulesDone(st, seen, result, t) ==
    IF result.success
    THEN LET schedules == IF Has(result.data, "schedules") THEN result.data.schedules ELSE << >>
         IN IF Len(schedules) = 0 /\ Len(seen.patches) > 0
            THEN [st EXCEPT !.deploymentSchedule = SampleSchedules(seen.patches, t)]
            ELSE [st EXCEPT !.deploymentSchedule = schedules]
    ELSE st

\* ------------------------------------------------------------------ Dashboard
\* How the try block of loadDashboardData can end: with the mock data of a
\* development build, with the three responses of the production build, or
\* with an error thrown by fetchAuthSession or axios.get.
DashboardOutcomes == IF setting = "development" THEN {"mock"} ELSE {"fetched", "threw"}
loadDashboardDataDoneNoFinally(st, outcome) ==
    CASE outcome = "mock" ->
            [st EXCEPT !.patchStatus = [totalDevices |-> 150, compliant |-> 128, pending |-> 22],
                       !.loading = FALSE]
      [] outcome = "fetched" ->
            [st EXCEPT !.patchStatus = [totalDevices |-> 9, compliant |-> 8, pending |-> 1],
                       !.loading = FALSE]
      [] outcome = "threw" ->
            [st EXCEPT !.patchStatus = [totalDevices |-> 0, compliant |-> 0, pending |-> 0]]
loadDashboardDataDone(st, outcome) ==
    LET s1 == CASE outcome = "mock" ->
                    [st EXCEPT !.patchStatus = [totalDevices |-> 150, compliant |-> 128, pending |-> 22]]
                [] outcome = "fetched" ->
                    [st EXCEPT !.patchStatus = [totalDevices |-> 9, compliant |-> 8, pending |-> 1]]
                [] outcome = "threw" ->
                    [st EXCEPT !.patchStatus = [totalDevices |-> 0, compliant |-> 0, pending |-> 0]]
    IN [s1 EXCEPT !.loading = FALSE]

\* -------------------------------------------------------- component actions
fixed == <<mockInventoryData, mockAlertsData, mockPatchesData, calls, view, setting>>

\* An activation of an async handler, waiting for the call it made.  seen is
\* the state of the render that created the running function, cached what of
\* it came from the fixtures, arg the handler's argument, held the result of
\* its first call.
NewTask(kind, trigger, seen, arg) ==
    [kind |-> kind, pc |-> "await", trigger |-> trigger,
     closure |-> [seen |-> seen, cached |-> log.cached, arg |-> arg, held |-> NoResult]]
InFlight(t) == tasks[t].pc \in {"await", "await2"}
Used == Cardinality({t \in TaskIds : tasks[t].kind # "free"})
Finish(t) == [tasks EXCEPT ![t].pc = "done"]
Late == IF phase = "unmounted" THEN 1 ELSE 0
Mark(cached, name, isCached) == IF isCached THEN cached \cup {name} ELSE cached \ {name}

\* What the effect of a component calls, at mount and at each tick of its timer
Loaders(v) ==
    CASE v = "InventoryList" -> <<"loadInventory">>
      [] v = "AlertManagement" -> <<"loadAlerts">>
      [] v = "PatchManagementSystem" -> <<"loadPatchData", "loadSchedules">>
      [] v = "Dashboard" -> <<"loadDashboardData">>
      [] v = "InventoryList.jsx" -> <<"loadInventory.jsx">>
      [] v = "AlertManagement.jsx" -> <<"loadAlerts.jsx">>
StartEffect(kind, st) ==
    CASE kind = "loadInventory" -> loadInventoryStart(st)
      [] kind = "loadPatchData" -> loadPatchDataStart(st)
      [] OTHER -> st
\* The calls of the loaders up to their first await.
RunLoaders(kinds, trigger, seen) ==
    /\ started < MaxStarts
    /\ tasks' = [t \in TaskIds |->
                    IF t > Used /\ t <= Used + Len(kinds)
                    THEN NewTask(kinds[t - Used], trigger, seen, 0)
                    ELSE tasks[t]]
    /\ started' = started + 1
    /\ comp' = LET s1 == StartEffect(kinds[1], comp)
               IN IF Len(kinds) > 1 THEN StartEffect(kinds[2], s1) ELSE s1

\* useEffect(() => { load(); const interval = setInterval(load, ...); ... }, []):
\* the functions it calls, now and from the timer, are those of the first render
Mount ==
    /\ phase = "init"
    /\ RunLoaders(Loaders(view), "mount", InitialState(view))
    /\ phase' = "mounted"
    /\ timerOn' = TRUE
    /\ pollDue' = now + PollInterval(view)
    /\ UNCHANGED <<now, log, fixed>>

PollFires ==
    /\ timerOn
    /\ now >= pollDue
    /\ RunLoaders(Loaders(view), "poll", InitialState(view))
    /\ pollDue' = pollDue + PollInterval(view)
    /\ log' = [log EXCEPT !.polls = @ + 1]
    /\ UNCHANGED <<now, phase, timerOn, fixed>>

\* return () => clearInterval(interval)
UnmountKeepsTimer ==
    /\ phase = "mounted"
    /\ phase' = "unmounted"
    /\ UNCHANGED <<now, timerOn, pollDue, tasks, started, comp, log, fixed>>
Unmount ==
    /\ phase = "mounted"
    /\ phase' = "unmounted"
    /\ timerOn' = FALSE
    /\ UNCHANGED <<now, pollDue, tasks, started, comp, log, fixed>>

\* Half a minute passes.  A timer that is due fires first, and the one second
\* of the development build's simulated delay and the two seconds of the
\* reload after a scan are over before.
UiTick ==
    /\ phase # "init"
    /\ now < MaxPeriods * HalfMinute
    /\ ~(timerOn /\ now >= pollDue)
    /\ ~(setting = "development" /\ \E t \in TaskIds : InFlight(t))
    /\ ~\E t \in TaskIds : tasks[t].pc = "timeout"
    /\ now' = now + HalfMinute
    /\ UNCHANGED <<phase, timerOn, pollDue, tasks, started, comp, log, fixed>>

LoadInventoryReturns(t, resp) ==
    /\ tasks[t].kind = "loadInventory" /\ tasks[t].pc = "await"
    /\ resp \in Answers("getInventory")
    /\ LET result == CallOutcome("getInventory", NoArg, resp, now)
       IN /\ comp' = loadInventoryDone(comp, result)
          /\ log' = [log EXCEPT !.finished = Append(@, t),
                                !.cached = IF result.success
                                           THEN Mark(@, "inventory", FromCacheOrFalse(result))
                                           ELSE @,
                                !.payload = result.data,
                                !.sources = Append(@, FromCacheOrFalse(result)),
                                !.lateWrites = IF Late = 1 THEN 1 ELSE @]
    /\ tasks' = Finish(t)
    /\ UNCHANGED <<now, phase, timerOn, pollDue, started, fixed>>

LoadAlertsReturns(t, resp) ==
    /\ tasks[t].kind = "loadAlerts" /\ tasks[t].pc = "await"
    /\ resp \in Answers("getAlerts")
    /\ LET result == CallOutcome("getAlerts", NoArg, resp, now)
       IN /\ comp' = loadAlertsDone(comp, result)
          /\ log' = [log EXCEPT !.finished = Append(@, t),
                                !.cached = IF result.success
                                           THEN Mark(@, "alerts", FromCacheOrFalse(result))
                                           ELSE @,
                                !.edits = IF result.success THEN 0 ELSE @,
                                !.discarded = IF result.success THEN log.edits ELSE @,
                                !.payload = result.data,
                                !.sources = Append(@, FromCacheOrFalse(result)),
                                !.lateWrites = IF Late = 1 THEN 1 ELSE @]
    /\ tasks' = Finish(t)
    /\ UNCHANGED <<now, phase, timerOn, pollDue, started, fixed>>

\* A click on Scan Now of the k-th device: handleScanNow up to its await.
ClickScanNow(k) ==
    /\ view = "InventoryList" /\ phase = "mounted" /\ ShowsMain(comp)
    /\ started + 1 < MaxStarts
    /\ k \in 1..Len(comp.inventory)
    /\ ~Scanning(comp, comp.inventory[k].id)
    /\ tasks' = [tasks EXCEPT ![Used + 1] =
                    NewTask("handleScanNow", "user", comp, comp.inventory[k].id)]
    /\ started' = started + 1
    /\ comp' = SetScanning(comp, comp.inventory[k].id, TRUE)
    /\ UNCHANGED <<now, phase, timerOn, pollDue, log, fixed>>

\* handleScanNow from the return of api.scanDevice: on success it arms the
\* timeout of the reload; the finally block resets the flag.
ScanReturns(t, resp) ==
    /\ tasks[t].kind = "handleScanNow" /\ tasks[t].pc = "await"
    /\ resp \in Answers("scanDevice")
    /\ LET cl == tasks[t].closure
           result == CallOutcome("scanDevice", [deviceId |-> cl.arg], resp, now)
       IN /\ tasks' = [tasks EXCEPT ![t].pc = IF result.success THEN "timeout" ELSE "done"]
          /\ comp' = SetScanning(comp, cl.arg, FALSE)
    /\ log' = [log EXCEPT !.lateWrites = IF Late = 1 THEN 1 ELSE @]
    /\ UNCHANGED <<now, phase, timerOn, pollDue, started, fixed>>

\* The timeout armed by handleScanNow fires: loadInventory of the render that
\* was clicked runs up to its await.  No cleanup clears this timeout.
ScanTimeoutFires(t) ==
    /\ tasks[t].kind = "handleScanNow" /\ tasks[t].pc = "timeout"
    /\ started < MaxStarts
    /\ tasks' = [u \in TaskIds |->
            IF u = t THEN [tasks[t] EXCEPT !.pc = "done"]
            ELSE IF u = Used + 1
                 THEN NewTask("loadInventory", "timeout", tasks[t].closure.seen, 0)
            ELSE tasks[u]]
    /\ started' = started + 1
    /\ comp' = loadInventoryStart(comp)
    /\ UNCHANGED <<now, phase, timerOn, pollDue, log, fixed>>

\* A click on the Acknowledge button of the k-th alert: handleAcknowledge up to
\* its await.
ClickAcknowledge(k) ==
    /\ view = "AlertManagement" /\ phase = "mounted" /\ ShowsMain(comp)
    /\ started < MaxStarts
    /\ k \in 1..Len(comp.alerts)
    /\ Has(comp.alerts[k], "id")
    /\ CanAcknowledge(comp, comp.alerts[k])
    /\ tasks' = [tasks EXCEPT ![Used + 1] =
                    NewTask("handleAcknowledge", "user", comp, comp.alerts[k].id)]
    /\ started' = started + 1
    /\ comp' = SetProcessing(comp, comp.alerts[k].id, "acknowledging")
    /\ UNCHANGED <<now, phase, timerOn, pollDue, log, fixed>>

\* handleAcknowledge writing the status into the alert objects it was given
AcknowledgeReturnsInPlace(t, resp) ==
    /\ tasks[t].kind = "handleAcknowledge" /\ tasks[t].pc = "await"
    /\ resp \in Answers("acknowledgeAlert")
    /\ LET cl == tasks[t].closure
           result == CallOutcome("acknowledgeAlert", NoArg, resp, now)
       IN /\ comp' = handleAcknowledgeDone(comp, cl.seen, cl.arg, result, now)
          /\ mockAlertsData' = IF result.success /\ "alerts" \in cl.cached
                                THEN WithStatus(mockAlertsData, cl.arg, "ACKNOWLEDGED", now)
                                ELSE mockAlertsData
          /\ log' = [log EXCEPT !.cached = IF result.success
                                           THEN Mark(@, "alerts", "alerts" \in cl.cached)
                                           ELSE @,
                                !.edits = IF result.success THEN @ + 1 ELSE @,
                                !.lateWrites = IF Late = 1 THEN 1 ELSE @]
    /\ tasks' = Finish(t)
    /\ UNCHANGED <<now, phase, timerOn, pollDue, started, mockInventoryData, mockPatchesData,
                   calls, view, setting>>
AcknowledgeReturns(t, resp) ==
    /\ tasks[t].kind = "handleAcknowledge" /\ tasks[t].pc = "await"
    /\ resp \in Answers("acknowledgeAlert")
    /\ LET cl == tasks[t].closure
           result == CallOutcome("acknowledgeAlert", NoArg, resp, now)
       IN /\ comp' = handleAcknowledgeDone(comp, cl.seen, cl.arg, result, now)
          /\ log' = [log EXCEPT !.cached = IF result.success
                                           THEN Mark(@, "alerts", "alerts" \in cl.cached)
                                           ELSE @,
                                !.edits = IF result.success THEN @ + 1 ELSE @,
                                !.lateWrites = IF Late = 1 THEN 1 ELSE @]
    /\ tasks' = Finish(t)
    /\ UNCHANGED <<now, phase, timerOn, pollDue, started, fixed>>

\* A click on the Resolve button of the k-th alert: handleResolve up to its
\* await.
ClickResolve(k) ==
    /\ view = "AlertManagement" /\ phase = "mounted" /\ ShowsMain(comp)
    /\ started < MaxStarts
    /\ k \in 1..Len(comp.alerts)
    /\ Has(comp.alerts[k], "id")
    /\ CanResolve(comp, comp.alerts[k])
    /\ tasks' = [tasks EXCEPT ![Used + 1] =
                    NewTask("handleResolve", "user", comp, comp.alerts[k].id)]
    /\ started' = started + 1
    /\ comp' = SetProcessing(comp, comp.alerts[k].id, "resolving")
    /\ UNCHANGED <<now, phase, timerOn, pollDue, log, fixed>>

ResolveReturns(t, resp) ==
    /\ tasks[t].kind = "handleResolve" /\ tasks[t].pc = "await"
    /\ resp \in Answers("resolveAlert")
    /\ LET cl == tasks[t].closure
           result == CallOutcome("resolveAlert", NoArg, resp, now)
       IN /\ comp' = handleResolveDone(comp, cl.seen, cl.arg, result, now)
          /\ log' = [log EXCEPT !.cached = IF result.success
                                           THEN Mark(@, "alerts", "alerts" \in cl.cached)
                                           ELSE @,
                                !.edits = IF result.success THEN @ + 1 ELSE @,
                                !.lateWrites = IF Late = 1 THEN 1 ELSE @]
    /\ tasks' = Finish(t)
    /\ UNCHANGED <<now, phase, timerOn, pollDue, started, fixed>>

\* The create form is opened, filled in and submitted: createAlert up to its
\* await.
SubmitCreateAlert ==
    /\ view = "AlertManagement" /\ phase = "mounted" /\ ShowsMain(comp)
    /\ started < MaxStarts
    /\ tasks' = [tasks EXCEPT ![Used + 1] = NewTask("createAlert", "user", comp, 0)]
    /\ started' = started + 1
    /\ UNCHANGED <<now, phase, timerOn, pollDue, comp, log, fixed>>

CreateAlertReturns(t, resp) ==
    /\ tasks[t].kind = "createAlert" /\ tasks[t].pc = "await"
    /\ resp \in Answers("createAlert")
    /\ LET cl == tasks[t].closure
           result == CallOutcome("createAlert", NewAlert, resp, now)
       IN /\ comp' = createAlertDone(comp, cl.seen, result)
          /\ log' = [log EXCEPT !.cached = IF result.success
                                           THEN Mark(@, "alerts", FromCacheOrFalse(result)
                                                                  \/ "alerts" \in cl.cached)
                                           ELSE @,
                                !.edits = IF result.success THEN @ + 1 ELSE @,
                                !.lateWrites = IF Late = 1 THEN 1 ELSE @]
    /\ tasks' = Finish(t)
    /\ UNCHANGED <<now, phase, timerOn, pollDue, started, fixed>>

\* A click on a Refresh button of PatchManagementSystem: loadPatchData up to
\* its first await.  (The Retry and Try Again buttons of the error screens are
\* never rendered: no loader of these components is ever told of a failure.)
ClickRefresh ==
    /\ view = "PatchManagementSystem" /\ phase = "mounted" /\ ShowsMain(comp)
    /\ RunLoaders(<<"loadPatchData">>, "user", comp)
    /\ UNCHANGED <<now, phase, timerOn, pollDue, log, fixed>>

GetPatchesReturns(t, resp) ==
    /\ tasks[t].kind = "loadPatchData" /\ tasks[t].pc = "await"
    /\ resp \in Answers("getPatches")
    /\ LET result == CallOutcome("getPatches", NoArg, resp, now)
       IN /\ comp' = loadPatchDataGotPatches(comp, tasks[t].closure.seen, result)
          /\ tasks' = IF result.success
                      THEN [tasks EXCEPT ![t].pc = "await2", ![t].closure.held = result]
                      ELSE Finish(t)
          /\ log' = [log EXCEPT !.cached = IF result.success
                                           THEN Mark(@, "patches", FromCacheOrFalse(result))
                                           ELSE @,
                                !.payload = result.data,
                                !.sources = Append(@, FromCacheOrFalse(result)),
                                !.lateWrites = IF Late = 1 THEN 1 ELSE @]
    /\ UNCHANGED <<now, phase, timerOn, pollDue, started, fixed>>

LoadPatchDataReturns(t, resp) ==
    /\ tasks[t].kind = "loadPatchData" /\ tasks[t].pc = "await2"
    /\ resp \in Answers("getInventory")
    /\ LET devicesResult == CallOutcome("getInventory", NoArg, resp, now)
       IN /\ comp' = loadPatchDataDone(comp, tasks[t].closure.held, devicesResult)
          /\ log' = [log EXCEPT !.finished = Append(@, t),
                                !.cached = IF devicesResult.success
                                           THEN Mark(@, "devices", FromCacheOrFalse(devicesResult))
                                           ELSE @,
                                !.lateWrites = IF Late = 1 THEN 1 ELSE @]
    /\ tasks' = Finish(t)
    /\ UNCHANGED <<now, phase, timerOn, pollDue, started, fixed>>

\* The argument of api.createSchedule that deployPatch builds from the patch
\* and the schedule; t is the time of the click.
ScheduleData(patch, t) ==
    [patchId |-> IdOr(<<patch>>, 1, "undefined"),
     patchTitle |-> FieldOr(<<patch>>, 1, "title", "undefined"),
     deviceIds |-> FieldOr(<<patch>>, 1, "affectedDevices", << >>),
     scheduledFor |-> t + Day,
     severity |-> FieldOr(<<patch>>, 1, "severity", "undefined"),
     requestedBy |-> "admin", enableAI |-> TRUE]

\* A click on "Schedule for Later" of the k-th patch: deployPatch(patch,
\* {scheduledFor}) up to its await.
ClickScheduleForLater(k) ==
    /\ view = "PatchManagementSystem" /\ phase = "mounted" /\ ShowsMain(comp)
    /\ started + 1 < MaxStarts
    /\ k \in 1..Len(comp.patches)
    /\ tasks' = [tasks EXCEPT ![Used + 1] =
                    NewTask("deployPatch", "user", comp, ScheduleData(comp.patches[k], now))]
    /\ started' = started + 1
    /\ UNCHANGED <<now, phase, timerOn, pollDue, comp, log, fixed>>

\* deployPatch from the return of api.createSchedule: the list is replaced
\* when the answer carries one, the success is reported, and loadPatchData()
\* and loadSchedules() of the render that was clicked run up to their first
\* await.  (The modal and the kept analysis, which it also resets, are not
\* part of the state here.)
deployPatchScheduled(st, result) ==
    IF result.success
    THEN LET s1 == IF Has(result.data, "schedules")
                   THEN [st EXCEPT !.deploymentSchedule = result.data.schedules]
                   ELSE st
         IN loadPatchDataStart(s1)
    ELSE st
CreateScheduleReturns(t, resp) ==
    /\ tasks[t].kind = "deployPatch" /\ tasks[t].pc = "await"
    /\ resp \in Answers("createSchedule")
    /\ started < MaxStarts
    /\ LET cl == tasks[t].closure
           result == CallOutcome("createSchedule", cl.arg, resp, now)
       IN /\ comp' = deployPatchScheduled(comp, result)
          /\ tasks' = [u \in TaskIds |->
                IF u = t THEN [tasks[t] EXCEPT !.pc = "done", !.closure.held = result]
                ELSE IF result.success /\ u = Used + 1
                     THEN NewTask("loadPatchData", "user", cl.seen, 0)
                ELSE IF result.success /\ u = Used + 2
                     THEN NewTask("loadSchedules", "user", cl.seen, 0)
                ELSE tasks[u]]
          /\ started' = IF result.success THEN started + 1 ELSE started
    /\ log' = [log EXCEPT !.lateWrites = IF Late = 1 THEN 1 ELSE @]
    /\ UNCHANGED <<now, phase, timerOn, pollDue, fixed>>

\* loadInventory or loadAlerts of a component that calls fetch() itself
\* returns; held keeps the response it got.
DirectLoadReturns(t, resp) ==
    /\ tasks[t].kind \in {"loadInventory.jsx", "loadAlerts.jsx"} /\ tasks[t].pc = "await"
    /\ resp \in DirectAnswers
    /\ comp' = loadDirectDone(comp, resp)
    /\ log' = [log EXCEPT !.finished = Append(@, t), !.lateWrites = IF Late = 1 THEN 1 ELSE @]
    /\ tasks' = [tasks EXCEPT ![t].pc = "done", ![t].closure.held = resp]
    /\ UNCHANGED <<now, phase, timerOn, pollDue, started, fixed>>

\* A click on the Retry button of the error screen of these components
ClickRetry ==
    /\ view \in DirectViews /\ phase = "mounted" /\ ShowsErrorScreen(comp)
    /\ RunLoaders(Loaders(view), "user", comp)
    /\ UNCHANGED <<now, phase, timerOn, pollDue, log, fixed>>

LoadSchedulesReturns(t, resp) ==
    /\ tasks[t].kind = "loadSchedules" /\ tasks[t].pc = "await"
    /\ resp \in Answers("getSchedules")
    /\ LET result == CallOutcome("getSchedules", NoArg, resp, now)
       IN comp' = loadSchedulesDone(comp, tasks[t].closure.seen, result, now)
    /\ log' = [log EXCEPT !.lateWrites = IF Late = 1 THEN 1 ELSE @]
    /\ tasks' = Finish(t)
    /\ UNCHANGED <<now, phase, timerOn, pollDue, started, fixed>>

LoadDashboardDataReturns(t, outcome) ==
    /\ tasks[t].kind = "loadDashboardData" /\ tasks[t].pc = "await"
    /\ outcome \in DashboardOutcomes
    /\ comp' = loadDashboardDataDone(comp, outcome)
    /\ log' = [log EXCEPT !.finished = Append(@, t), !.lateWrites = IF Late = 1 THEN 1 ELSE @]
    /\ tasks' = Finish(t)
    /\ UNCHANGED <<now, phase, timerOn, pollDue, started, fixed>>

\* the alerts listed (no filter is set)
AlertRows == IF view = "AlertManagement" THEN 1..Len(comp.alerts) ELSE {}

\* the devices listed (no filter is set)
DeviceRows == IF view = "InventoryList" THEN 1..Len(comp.inventory) ELSE {}
\* the patches listed (no filter is set)
PatchRows == IF view = "PatchManagementSystem" THEN 1..Len(comp.patches) ELSE {}

NextUI ==
    \/ Mount /\ UNCHANGED trace
    \/ PollFires /\ UNCHANGED trace
    \/ Unmount /\ UNCHANGED trace
    \/ UiTick /\ UNCHANGED trace
    \/ ClickRefresh /\ UNCHANGED trace
    \/ ClickRetry /\ UNCHANGED trace
    \/ \E k \in DeviceRows : ClickScanNow(k) /\ UNCHANGED trace
    \/ \E t \in TaskIds, resp \in Responses : ScanReturns(t, resp) /\ UNCHANGED trace
    \/ \E t \in TaskIds : ScanTimeoutFires(t) /\ UNCHANGED trace
    \/ \E t \in TaskIds, resp \in DirectAnswers : DirectLoadReturns(t, resp) /\ UNCHANGED trace
    \/ SubmitCreateAlert /\ UNCHANGED trace
    \/ \E k \in PatchRows : ClickScheduleForLater(k) /\ UNCHANGED trace
    \/ \E t \in TaskIds, resp \in Responses : CreateScheduleReturns(t, resp) /\ UNCHANGED trace
    \/ \E k \in AlertRows : ClickAcknowledge(k) /\ UNCHANGED trace
    \/ \E k \in AlertRows : ClickResolve(k) /\ UNCHANGED trace
    \/ \E t \in TaskIds, resp \in Responses : LoadInventoryReturns(t, resp) /\ UNCHANGED trace
    \/ \E t \in TaskIds, resp \in Responses : LoadAlertsReturns(t, resp) /\ UNCHANGED trace
    \/ \E t \in TaskIds, resp \in Responses : AcknowledgeReturns(t, resp) /\ UNCHANGED trace
    \/ \E t \in TaskIds, resp \in Responses : ResolveReturns(t, resp) /\ UNCHANGED trace
    \/ \E t \in TaskIds, resp \in Responses : CreateAlertReturns(t, resp) /\ UNCHANGED trace
    \/ \E t \in TaskIds, resp \in Responses : GetPatchesReturns(t, resp) /\ UNCHANGED trace
    \/ \E t \in TaskIds, resp \in Responses : LoadPatchDataReturns(t, resp) /\ UNCHANGED trace
    \/ \E t \in TaskIds, resp \in Responses : LoadSchedulesReturns(t, resp) /\ UNCHANGED trace
    \/ \E t \in TaskIds, outcome \in {"mock", "fetched", "threw"} : LoadDashboardDataReturns(t, outcome) /\ UNCHANGED trace

SpecUI == InitUI /\ [][NextUI]_vars

\* ------------------------------------------------------------------ claims
MutationOps == {"scanDevice", "acknowledgeAlert", "resolveAlert", "createAlert",
                "deployPatch", "createSchedule", "cancelSchedule"}
ReadOps == {"getInventory", "getAlerts", "getPatches", "getPatchDetails", "getPatchStatus",
            "getPatchAnalysis", "getPatchSchedule", "getSchedules", "getScheduleDetails"}

Returned(c) == calls[c].pc = "done"
\* Every transport attempt of the call failed.
AllFailed(c) == calls[c].failed = calls[c].attempts
FromCache(env) == Has(env, "fromCache") /\ env.fromCache = TRUE
NotFromCache(env) == Has(env, "fromCache") /\ env.fromCache = FALSE

\* C1: a mutation operation never returns success=false, and when every
\* transport attempt failed its envelope has success=true and fromCache=true.
C1_MutationsAlwaysSucceed ==
    \A c \in CallIds :
        (Returned(c) /\ calls[c].op \in MutationOps) =>
            /\ calls[c].env.success = TRUE
            /\ AllFailed(c) => FromCache(calls[c].env)
C1_Witness ==
    \E c \in CallIds :
        /\ Returned(c) /\ calls[c].op = "cancelSchedule" /\ AllFailed(c)
        /\ calls[c].attempts = retries + 1
        /\ calls[c].env.success = TRUE /\ FromCache(calls[c].env)

\* The value the fallback of a read operation is documented to carry.
StatusCounts ==
    [totalDevices |-> 5, compliant |-> 2, pending |-> 2, nonCompliant |-> 1]
IsReadFixture(op, arg, data) ==
    CASE op = "getInventory" -> data = InventoryFixture(0)
      [] op = "getAlerts" -> data = AlertsFixture(0)
      [] op \in {"getPatches", "getPatchAnalysis"} -> data = PatchesFixture
      [] op = "getPatchDetails" ->
            \/ \E k \in 1..Len(PatchesFixture) :
                    PatchesFixture[k].patchId = arg.patchId /\ data = PatchesFixture[k]
            \/ /\ \A k \in 1..Len(PatchesFixture) : PatchesFixture[k].patchId # arg.patchId
               /\ data = [empty |-> TRUE]
      [] op = "getPatchStatus" ->
            \A f \in DOMAIN StatusCounts : Has(data, f) /\ data[f] = StatusCounts[f]
      [] op = "getPatchSchedule" -> data = << >>
      [] op = "getSchedules" -> data = [schedules |-> << >>, count |-> 0]
      [] OTHER -> FALSE

\* C2: when every transport attempt failed, a read operation returns
\* success=true, fromCache=true and the fixture of its resource as data.
C2_ReadsFallBackToFixture ==
    \A c \in CallIds :
        (Returned(c) /\ calls[c].op \in ReadOps /\ AllFailed(c)) =>
            /\ calls[c].env.success = TRUE
            /\ FromCache(calls[c].env)
            /\ Has(calls[c].env, "data")
            /\ IsReadFixture(calls[c].op, calls[c].arg, calls[c].env.data)

\* C3: a call whose first two attempts failed makes a third attempt, and when
\* that one succeeds the call returns, after exactly 3 invocations of the
\* transport, success=true and fromCache=false with the parsed body as data.
C3_ThirdAttemptSucceeds ==
    \A c \in CallIds :
        (Returned(c) /\ calls[c].failed = 2) =>
            /\ calls[c].attempts = 3
            /\ ~TransportFailed(calls[c].finalResp)
            /\ calls[c].env.success = TRUE
            /\ NotFromCache(calls[c].env)
            /\ calls[c].env.data = JsonParse(calls[c].finalResp.body)
C3_Witness ==
    \E c \in CallIds :
        /\ Returned(c) /\ calls[c].failed = 2 /\ calls[c].attempts = 3
        /\ calls[c].env.success = TRUE /\ NotFromCache(calls[c].env)

\* C4: the transport is invoked at most 3 times per call; once 3 attempts have
\* failed the call has returned through the fallback path, and a call whose
\* attempts all failed has made exactly 3.
C4_ThreeAttemptsThenFallback ==
    \A c \in CallIds :
        /\ calls[c].attempts <= 3
        /\ calls[c].pc # "thrown"
        /\ calls[c].failed = 3 => Returned(c)
        /\ (Returned(c) /\ AllFailed(c)) =>
                /\ calls[c].attempts = 3
                /\ calls[c].result.success = FALSE
                /\ \E k \in 0..MaxTicks :
                        calls[c].env = Fallback(calls[c].op, calls[c].arg, k * BaseUnit)
C4_Witness ==
    \E c \in CallIds :
        /\ Returned(c) /\ calls[c].failed = 3 /\ calls[c].attempts = 3
        /\ calls[c].result.success = FALSE

\* C5: the delay armed after the k-th failed attempt (k = 1, 2) is k base
\* units, the next attempt starts only once it has elapsed, and no delay is
\* armed after the 3rd failed attempt or after a successful one.
C5_LinearBackoff ==
    [][\A c \in CallIds :
        /\ (calls[c].pc = "fetch" /\ calls'[c].pc = "sleep") =>
                /\ calls[c].attempts \in {1, 2}
                /\ calls'[c].wakeAt = now + calls[c].attempts * BaseUnit
                /\ calls'[c].delays = Append(calls[c].delays, calls[c].attempts * BaseUnit)
        /\ (calls[c].pc = "sleep" /\ calls'[c].pc = "fetch") => now >= calls[c].wakeAt
        /\ (calls[c].pc = "fetch" /\ calls[c].attempts = 3) => calls'[c].pc # "sleep"
        /\ (calls[c].pc = "fetch" /\ calls'[c].pc = "done") =>
                /\ calls'[c].delays = calls[c].delays
                /\ calls'[c].wakeAt = 0
                /\ Len(calls[c].delays) = calls[c].attempts - 1
    ]_vars
C5_Witness ==
    \E c \in CallIds :
        /\ calls[c].pc = "fetch" /\ calls[c].attempts = 3
        /\ calls[c].delays = <<BaseUnit, 2 * BaseUnit>>
        /\ now >= 3 * BaseUnit

\* C6: whatever the transport does, a call ends by returning an envelope
\* object: it never throws, and what it returns is neither undefined nor null.
C6_AlwaysAnEnvelope ==
    \A c \in CallIds :
        /\ calls[c].pc # "thrown"
        /\ Returned(c) =>
                /\ ~Has(calls[c].env, "isUndefined")
                /\ ~Has(calls[c].env, "isNull")
                /\ ~Has(calls[c].env, "none")
                /\ Has(calls[c].env, "success")
C6_Witness ==
    \E c \in CallIds :
        /\ Returned(c) /\ calls[c].failed = 3
        /\ calls[c].finalResp.rejected = FALSE /\ calls[c].finalResp.status = 200
        /\ Has(calls[c].env, "success")

\* C7 as stated: every envelope carries the four fields success, data, error
\* and fromCache.
C7_FourFields ==
    \A c \in CallIds :
        Returned(c) =>
            \A f \in {"success", "data", "error", "fromCache"} : Has(calls[c].env, f)
\* C7 as amended: every envelope carries a boolean success; one with
\* success=true carries data and a boolean fromCache and no error; one with
\* success=false (getScheduleDetails only) carries a string error and neither
\* data nor fromCache.
C7_EnvelopeFields ==
    \A c \in CallIds :
        Returned(c) =>
            LET env == calls[c].env
            IN /\ Has(env, "success") /\ env.success \in BOOLEAN
               /\ env.success =>
                    /\ DOMAIN env = {"success", "data", "fromCache"}
                    /\ env.fromCache \in BOOLEAN
               /\ ~env.success =>
                    /\ DOMAIN env = {"success", "error"}
                    /\ env.error \in STRING
                    /\ calls[c].op = "getScheduleDetails"
C7_Witness ==
    /\ \E c \in CallIds :
            Returned(c) /\ ~AllFailed(c) /\ DOMAIN calls[c].env = {"success", "data", "fromCache"}
    /\ \E c \in CallIds :
            Returned(c) /\ AllFailed(c) /\ DOMAIN calls[c].env = {"success", "error"}

\* C8: the envelope has fromCache=true exactly when every transport attempt of
\* the call failed; when an attempt succeeded it has fromCache=false and the
\* backend's body as data.
C8_FromCacheIffAllFailed ==
    \A c \in CallIds :
        Returned(c) =>
            /\ FromCache(calls[c].env) <=> AllFailed(c)
            /\ ~AllFailed(c) =>
                    /\ NotFromCache(calls[c].env)
                    /\ calls[c].env.data = JsonParse(calls[c].finalResp.body)

\* C9: two getInventory calls whose attempts all failed return the same data,
\* the inventory fixture, whichever of them returned first.
C9_InventoryFallbackIdempotent ==
    \A c1, c2 \in CallIds :
        ( /\ Returned(c1) /\ calls[c1].op = "getInventory" /\ AllFailed(c1)
          /\ Returned(c2) /\ calls[c2].op = "getInventory" /\ AllFailed(c2) ) =>
            /\ calls[c1].env.data = calls[c2].env.data
            /\ Len(calls[c1].env.data) = 5
C9_Witness ==
    /\ now > 3 * BaseUnit
    /\ \A c \in CallIds :
            /\ Returned(c) /\ calls[c].op = "getInventory" /\ AllFailed(c)
            /\ FromCache(calls[c].env)

\* C10: createAlert with every attempt failed returns data that carries each
\* input field unchanged, and any two such calls return different data.id.
C10_CreateAlertFreshId ==
    \A c1, c2 \in CallIds :
        ( /\ Returned(c1) /\ calls[c1].op = "createAlert" /\ AllFailed(c1)
          /\ Returned(c2) /\ calls[c2].op = "createAlert" /\ AllFailed(c2) ) =>
            /\ \A f \in DOMAIN calls[c1].arg :
                    Has(calls[c1].env.data, f) /\ calls[c1].env.data[f] = calls[c1].arg[f]
            /\ c1 # c2 => calls[c1].env.data.id # calls[c2].env.data.id

\* C11: with a transport that fails every attempt (HTTP 500 included) the
\* fallback data is the documented fixture: 5 devices for getInventory; the
\* patches KB5034441, KB5034439, UBUNTU-2024-01 in that order for getPatches;
\* the alerts 1, 2, 3 of severity critical, high, medium for getAlerts.
C11_DocumentedFixtures ==
    \A c \in CallIds :
        (Returned(c) /\ AllFailed(c)) =>
            LET data == calls[c].env.data
            IN /\ calls[c].op = "getInventory" => Len(data) = 5
               /\ calls[c].op = "getPatches" =>
                    /\ Len(data) = 3
                    /\ [k \in 1..3 |-> data[k].patchId]
                            = <<"KB5034441", "KB5034439", "UBUNTU-2024-01">>
               /\ calls[c].op = "getAlerts" =>
                    /\ Len(data) = 3
                    /\ [k \in 1..3 |-> data[k].id] = <<1, 2, 3>>
                    /\ [k \in 1..3 |-> data[k].severity] = <<"critical", "high", "medium">>
C11_Witness ==
    \E c \in CallIds :
        /\ Returned(c) /\ AllFailed(c) /\ calls[c].op = "getAlerts"
        /\ calls[c].finalResp.status = 500
        /\ Len(calls[c].env.data) = 3

\* C12: when analyzePatch falls back, severity CRITICAL or HIGH gives
\* recommendation REVIEW with riskLevel 7, every other severity and a missing
\* one give APPROVE with riskLevel 3, and the envelope has success=true and
\* fromCache=true.
GivenSeverity(patchData) ==
    IF Has(patchData, "patch") /\ Has(patchData.patch, "severity")
    THEN patchData.patch.severity ELSE "(none)"
C12_AnalyzeFallbackBySeverity ==
    \A c \in CallIds :
        (Returned(c) /\ AllFailed(c) /\ calls[c].op = "analyzePatch") =>
            /\ calls[c].env.success = TRUE
            /\ FromCache(calls[c].env)
            /\ IF GivenSeverity(calls[c].arg) \in {"CRITICAL", "HIGH"}
               THEN /\ calls[c].env.data.recommendation = "REVIEW"
                    /\ calls[c].env.data.riskLevel = 7
               ELSE /\ calls[c].env.data.recommendation = "APPROVE"
                    /\ calls[c].env.data.riskLevel = 3
C12_Witness ==
    /\ \E c \in CallIds :
            /\ Returned(c) /\ AllFailed(c) /\ calls[c].op = "analyzePatch"
            /\ GivenSeverity(calls[c].arg) = "(none)"
            /\ calls[c].env.data.recommendation = "APPROVE"
    /\ \E c \in CallIds :
            /\ Returned(c) /\ AllFailed(c) /\ calls[c].op = "analyzePatch"
            /\ GivenSeverity(calls[c].arg) = "HIGH"
            /\ calls[c].env.data.recommendation = "REVIEW"

C14_BadResponsesAreFailures ==
    \A c \in CallIds :
        /\ calls[c].pc = "fetch" => calls[c].failed = calls[c].attempts - 1
        /\ calls[c].pc = "sleep" =>
                /\ calls[c].failed = calls[c].attempts
                /\ Len(calls[c].delays) = calls[c].failed
        /\ (Returned(c) /\ TransportFailed(calls[c].finalResp)) =>
                /\ calls[c].attempts = 3
                /\ calls[c].failed = 3
                /\ calls[c].delays = <<BaseUnit, 2 * BaseUnit>>
                /\ \E k \in 0..MaxTicks :
                        calls[c].env = Fallback(calls[c].op, calls[c].arg, k * BaseUnit)
C14_Witness ==
    /\ \E c \in CallIds :
            /\ Returned(c) /\ calls[c].failed = 3 /\ ~calls[c].finalResp.rejected
            /\ calls[c].finalResp.status = 500 /\ FromCache(calls[c].env)
    /\ \E c \in CallIds :
            /\ Returned(c) /\ calls[c].failed = 3 /\ ~calls[c].finalResp.rejected
            /\ calls[c].finalResp.status = 200 /\ FromCache(calls[c].env)


\* ---------------------------------------------------------- component claims
Loading(t) == tasks[t].kind \in {"loadInventory", "loadAlerts", "loadPatchData",
                                 "loadDashboardData"} /\ InFlight(t)
Last(seq) == seq[Len(seq)]
ShowsFixture(st) ==
    CASE view = "InventoryList" -> st.inventory = mockInventoryData
      [] view = "AlertManagement" -> st.alerts = mockAlertsData
      [] view = "PatchManagementSystem" -> st.patches = mockPatchesData /\ st.devices = mockInventoryData

\* C15: in every api-backed component, whenever some state of the component
\* holds data taken from an envelope with fromCache = true, usingMockData is
\* true.
C15_IndicatorCoversEveryFetch ==
    (view \in ApiViews /\ log.cached # {}) => comp.usingMockData

\* C16: with the backend permanently unreachable, an api-backed view never has
\* an error and never renders its error screen, and each completion of its
\* load leaves loading = false, error = null, the fixture data in the state and
\* the demo-data indicator on.
C16_DemoModeNotErrorScreen ==
    [][(setting = "down" /\ view \in ApiViews) =>
            /\ comp'.error = Null
            /\ ~ShowsErrorScreen(comp')
            /\ log'.finished # log.finished =>
                    /\ ~comp'.loading
                    /\ comp'.usingMockData
                    /\ ShowsFixture(comp')]_vars
C16_Witness ==
    /\ setting = "down" /\ view = "PatchManagementSystem"
    /\ Len(log.finished) >= 3
    /\ log.polls >= 1
    /\ \E t \in TaskIds : tasks[t].trigger = "user" /\ tasks[t].pc = "done"
    /\ \A t \in TaskIds : ~InFlight(t)
    /\ ShowsBanner(comp) /\ ShowsFixture(comp)

\* C17: the list a component shows is the payload of the envelope its loader
\* received last, whichever load was started first.
C17_LastWriterWins ==
    /\ (view = "InventoryList" /\ log.sources # << >>) => comp.inventory = log.payload
    /\ (view = "PatchManagementSystem" /\ log.sources # << >>) => comp.patches = log.payload
\* Two loads were in flight together; the load started second returned the
\* backend's list first, then the load started first returned the fixture, and
\* the fixture is what is shown.
C17_Witness ==
    /\ view = "InventoryList"
    /\ Len(log.finished) = 2 /\ log.finished[1] > log.finished[2]
    /\ log.sources = <<FALSE, TRUE>>
    /\ comp.inventory = mockInventoryData /\ comp.usingMockData

\* C18: while the component is mounted its timer is armed and fires at each
\* multiple of its interval, never late; it fires only while the component is
\* mounted; the teardown leaves the handlers in flight as they are.
C18_TimerUntilTeardown ==
    [][/\ phase' = "mounted" =>
            /\ timerOn'
            /\ pollDue' = (log'.polls + 1) * PollInterval(view)
            /\ now' <= pollDue'
       /\ log'.polls # log.polls =>
            /\ phase = "mounted"
            /\ now = log'.polls * PollInterval(view)
       /\ phase' = "unmounted" => ~timerOn'
       /\ (phase = "mounted" /\ phase' = "unmounted") => tasks' = tasks]_vars
\* After the teardown a load that was in flight wrote state, and the time of
\* the next tick came without a tick.
C18_Witness ==
    /\ phase = "unmounted"
    /\ log.polls > 0
    /\ log.lateWrites > 0
    /\ now >= pollDue
    /\ view \in {"AlertManagement", "Dashboard"}

\* C19 (as stated): Dashboard shows the spinner exactly until the call of
\* loadDashboardData made at mount has finished.
C19_UntilMountCallFinishes ==
    (view = "Dashboard" /\ phase # "init") => (comp.loading <=> tasks[1].pc # "done")
\* C19 (amended): Dashboard shows the spinner exactly until some call of
\* loadDashboardData has finished, whether it succeeded or threw.
C19_UntilFirstFinish ==
    view = "Dashboard" => (ShowsSpinner(comp) <=> log.finished = << >>)
\* The first call to finish threw, a later poll has been answered, and the
\* spinner is gone.
C19_Witness ==
    /\ view = "Dashboard" /\ setting = "production"
    /\ Len(log.finished) >= 2
    /\ log.polls >= 1
    /\ comp.patchStatus.totalDevices = 0
    /\ ~ShowsSpinner(comp)

\* C20: when no local edit was made since AlertManagement received its last
\* list, the alerts it shows are that list: what acknowledge, resolve and
\* create did before is gone.
C20_RefreshDiscardsEdits ==
    (view = "AlertManagement" /\ log.sources # << >> /\ log.edits = 0) => comp.alerts = log.payload
C20_Witness ==
    /\ view = "AlertManagement"
    /\ log.discarded >= 1
    /\ log.edits = 0
    /\ comp.alerts = mockAlertsData

C22_CallTerminates ==
    /\ [](/\ calls["A"].attempts <= retries + 1
          /\ Len(calls["A"].delays) <= retries
          /\ calls["A"].pc # "thrown")
    /\ [][/\ calls'["A"].attempts > calls["A"].attempts => calls["A"].failed = calls["A"].attempts
          /\ Len(calls'["A"].delays) > Len(calls["A"].delays) =>
                calls'["A"].failed = calls'["A"].attempts
          /\ calls["A"].pc = "done" => calls'["A"].pc \in {"done", "idle"}]_Progress
    /\ (calls["A"].pc \in {"fetch", "sleep"}) ~> (calls["A"].pc = "done")
\* A call has returned the backend's answer from its third attempt.
C22_Witness ==
    /\ calls["A"].pc = "done"
    /\ Len(trace) = 2
    /\ calls["A"].attempts = 3
    /\ calls["A"].env.success /\ NotFromCache(calls["A"].env)

\* ------------------------------------------------------------- more claims
\* C23: no call of the api and no handler of a component changes the
\* module-level fixtures, so a fallback read after local edits shows the same
\* alerts as the first one.
C23_FixturesUntouched ==
    /\ mockInventoryData = InventoryFixture(0)
    /\ mockAlertsData = AlertsFixture(0)
    /\ mockPatchesData = PatchesFixture
    /\ (view = "AlertManagement" /\ log.sources # << >> /\ Last(log.sources) /\ log.edits = 0)
            => comp.alerts = AlertsFixture(0)
\* A fallback read, local edits of what it returned, and a second fallback
\* read that replaced them.
C23_Witness ==
    /\ view = "AlertManagement"
    /\ log.sources = <<TRUE, TRUE>>
    /\ log.discarded >= 1
    /\ \E t \in TaskIds : /\ tasks[t].kind \in {"handleAcknowledge", "handleResolve"}
                          /\ tasks[t].pc = "done"
                          /\ "alerts" \in tasks[t].closure.cached
    /\ comp.alerts = AlertsFixture(0)

\* The part of a call's record that is the same kind of value in every state.
C24_Own(c) ==
    <<calls[c].op, calls[c].pc, calls[c].i, calls[c].attempts, calls[c].failed,
      calls[c].delays, calls[c].wakeAt>>
C24_Times == {k * BaseUnit : k \in 0..(MaxTicks + 1)}
\* What the call has done so far follows from its own attempts alone.
C24_FromOwnAttempts(c) ==
    LET call == calls[c]
    IN /\ call.pc \in {"fetch", "sleep", "done"} =>
            /\ call.attempts = call.i + 1
            /\ call.delays = [k \in 1..(call.attempts - IF call.pc = "sleep" THEN 0 ELSE 1)
                                |-> BackoffDelay(k - 1)]
            /\ call.failed >= Len(call.delays)
       /\ call.pc = "done" =>
            IF TryAttempt(call.finalResp).threw
            THEN /\ call.attempts = retries + 1
                 /\ \E t \in C24_Times : call.env =
                        ApiReturn(call.op, call.arg,
                                  FailureResult(TryAttempt(call.finalResp).message), t)
            ELSE \E t \in C24_Times : call.env =
                        ApiReturn(call.op, call.arg, TryAttempt(call.finalResp).value, t)
\* C24: calls in flight at the same time do not influence each other: a step
\* of one call leaves the loop state and the envelope of every other call as
\* they were, and the attempts, the delays and the envelope of each call are
\* those that its own transport attempts give.
C24_CallsAreIndependent ==
    /\ [](\A c \in CallIds : C24_FromOwnAttempts(c))
    /\ [][\A c, d \in CallIds :
            (c # d /\ C24_Own(c)' # C24_Own(c)) =>
                /\ C24_Own(d)' = C24_Own(d)
                /\ (calls[d].pc = "done" => calls'[d].env = calls[d].env)]_vars
\* Two calls in flight together: one is making its third attempt while the
\* other waits for its first backoff timer.
C24_Witness ==
    /\ calls["A"].pc = "fetch" /\ calls["A"].attempts = 3
    /\ calls["B"].pc = "sleep" /\ calls["B"].attempts = 1 /\ calls["B"].failed = 1

\* The status shown for the alert with this id.
C25_StatusShown(alertId) ==
    LET rows == {k \in 1..Len(comp.alerts) :
                    Has(comp.alerts[k], "id") /\ comp.alerts[k].id = alertId}
    IN IF rows = {} THEN "absent" ELSE StatusOf(comp.alerts[CHOOSE k \in rows : TRUE])
\* An acknowledge and a resolve of two different alerts that were both clicked
\* on the same list (neither had completed when the other started), both
\* succeeded and both have completed, with no load completed since.
C25_BothDone(ta, tr) ==
    /\ view = "AlertManagement"
    /\ tasks[ta].kind = "handleAcknowledge" /\ tasks[ta].pc = "done"
    /\ tasks[tr].kind = "handleResolve" /\ tasks[tr].pc = "done"
    /\ tasks[ta].closure.seen.alerts = tasks[tr].closure.seen.alerts
    /\ tasks[ta].closure.arg # tasks[tr].closure.arg
    /\ log.edits = 2
    /\ Len(log.finished) = 1
\* C25: an acknowledge of alert A and a resolve of another alert B that
\* overlap and both succeed leave A ACKNOWLEDGED and B RESOLVED.
C25_BothEditsSurvive ==
    \A ta, tr \in TaskIds :
        C25_BothDone(ta, tr) =>
            /\ C25_StatusShown(tasks[ta].closure.arg) = "ACKNOWLEDGED"
            /\ C25_StatusShown(tasks[tr].closure.arg) = "RESOLVED"

\* The acknowledge and resolve handlers of this alert that wait for their call.
C26_InFlightFor(alertId) ==
    {t \in TaskIds : /\ tasks[t].kind \in {"handleAcknowledge", "handleResolve"}
                     /\ tasks[t].pc = "await"
                     /\ tasks[t].closure.arg = alertId}
\* C26: the processing flag of an alert is set while an acknowledge or a
\* resolve of that alert is in flight, and is null (or was never set) when
\* none is.
C26_ProcessingTracksInFlight ==
    view = "AlertManagement" =>
        \A k \in 1..Len(comp.alerts) :
            Has(comp.alerts[k], "id") =>
                LET alertId == comp.alerts[k].id
                IN (C26_InFlightFor(alertId) # {})
                        <=> (Processing(comp, alertId) \notin {ProcNull, "undefined"})

\* A deployPatch with a schedule that has reported success on the synthesized
\* acceptance of createSchedule.
C27_ReportedSuccess(t) ==
    /\ tasks[t].kind = "deployPatch" /\ tasks[t].pc = "done"
    /\ tasks[t].closure.held.success
    /\ FromCache(tasks[t].closure.held)
\* C27: after deployPatch with a schedule has reported success, the
\* deployment-schedule list has an entry for the patch that was scheduled
\* (stated here for the backend that is unreachable).
C27_ScheduledPatchIsListed ==
    (view = "PatchManagementSystem" /\ setting = "down") =>
        \A t \in TaskIds :
            C27_ReportedSuccess(t) =>
                \E k \in 1..Len(comp.deploymentSchedule) :
                    comp.deploymentSchedule[k].patchId = tasks[t].closure.arg.patchId

\* C28: in the components that call fetch() themselves, a load that succeeds
\* leaves error = null, also when a load before it had failed.
C28_SuccessClearsError ==
    (view \in DirectViews /\ log.finished # << >>
        /\ DirectOk(tasks[Last(log.finished)].closure.held)) => comp.error = Null

\* C29: once the api-backed InventoryList is torn down, no loadInventory
\* starts (no api.getInventory call is made), whatever was clicked before.
C29_NoLoadAfterTeardown ==
    [][(view = "InventoryList" /\ phase = "unmounted") =>
            \A t \in TaskIds :
                tasks'[t].kind = "loadInventory" => tasks[t].kind = "loadInventory"]_vars

\* C30: the counts that getPatchStatus answers from the inventory fixture are
\* consistent: 5 devices in all, and compliant (2), pending (2) and
\* non-compliant (1) add up to that total.
C30_StatusCountsAddUp ==
    \A c \in CallIds :
        (Returned(c) /\ calls[c].op = "getPatchStatus" /\ FromCache(calls[c].env)) =>
            LET data == calls[c].env.data
            IN /\ data.totalDevices = Len(InventoryFixture(0))
               /\ data.totalDevices = 5
               /\ data.compliant + data.pending + data.nonCompliant = data.totalDevices
               /\ <<data.compliant, data.pending, data.nonCompliant>> = <<2, 2, 1>>
C30_Witness ==
    \E c \in CallIds :
        /\ Returned(c) /\ calls[c].op = "getPatchStatus" /\ FromCache(calls[c].env)
        /\ calls[c].failed = retries + 1
        /\ calls[c].env.data.compliant + calls[c].env.data.pending
                + calls[c].env.data.nonCompliant = 5
====
